---- MODULE Spec2Model ----
(***************************************************************************)
(* Row shaping of the HBase and SQLite loaders of the social-media         *)
(* benchmark (src/hbase_vs_sqlite_experiment).                             *)
(*                                                                         *)
(* A Python str is a sequence of one-character strings, a CSV cell is a    *)
(* record telling whether the key is absent from the row dict, maps to     *)
(* None (csv.DictReader fills the cells a short line lacks with None) or   *)
(* maps to a str.  The shaping functions are operators; the actions apply  *)
(* them to rows drawn from bounded sets.                                   *)
(***************************************************************************)
EXTENDS Integers, Sequences, FiniteSets, TLC

VARIABLES op, row, row_idx, row_key, prev_idx, prev_key, data, sqlite_data,
          calls, frames,
          file, l_pc, total_records, successful_records, batch_count,
          current_batch, submitted, ret, total_batches, performance_metrics,
          committed,
          b_pc, batch_data, attempt, weather, offset, success_count, counted,
          tried, result, attempts, table, stored,
          main_loader, m_pc, steps, connection, raised,
          csv, e_pc, row_count, e_batch, hbase_table, sqlite_table, data_stats

\* one row keyed or shaped by a loader
shapeVars == <<op, row, row_idx, row_key, prev_idx, prev_key, data, sqlite_data>>

\* the calls of the shaper that workers have in progress, and their locals
workerVars == <<calls, frames>>

\* load_data_sequential: the file read, the position in the code, the counters,
\* the batches handed to load_batch_with_retry so far, what it returned, the
\* loader's performance_metrics, and the inserted records SQLite has committed
loadVars == <<file, l_pc, total_records, successful_records, batch_count,
              current_batch, submitted, ret, total_batches, performance_metrics,
              committed>>

\* load_batch_with_retry: the call in progress, the HBase table, and the row
\* indexes whose put HBase accepted
batchVars == <<b_pc, batch_data, attempt, weather, offset, success_count, counted,
               tried, result, attempts, table, stored>>

loaderVars == <<loadVars, batchVars>>

\* main of a loader: the loader, the position in main, the steps taken with
\* their outcomes, the loader's connection, and the exception on its way out
mainVars == <<main_loader, m_pc, steps, connection, raised>>

\* the performance experiment: the CSV file, the position in the loading, the
\* rows read, the mutations waiting in the HBase batch, the rows of the HBase
\* table, the post_id values of the rows of the SQLite table, and
\* data_stats['total_records']
experimentVars == <<csv, e_pc, row_count, e_batch, hbase_table, sqlite_table, data_stats>>

vars == <<shapeVars, workerVars, loaderVars, mainVars, experimentVars>>

(* ------------------------------ bounds -------------------------------- *)

\* The workers that call the shaper at the same time.
NumWorkers == 2

\* Generated cell values are all strings over GenChars up to this length.
MaxGenLen == 2

\* Long text values run from one character under a field's cut to this many over.
MaxExtra == 1

\* The batches handed to load_batch_with_retry alone hold up to this many full
\* micro-batches, and one record more.
MaxFullMicro == 2

\* The longest file loaded holds this many full batches and one line more.
MaxFullBatches == 1

\* The longest file the SQLite loader loads has this many commits issued while
\* it is read, and one line more.
MaxCommits == 1

\* The CSV files of the performance experiment have up to this many data rows.
MaxRows == 3

(* ------------------------- Python values ------------------------------ *)

Absent == [k |-> "absent", s |-> <<>>]

NoneVal == [k |-> "none", s |-> <<>>]

Str(s) == [k |-> "str", s |-> s]

Min(a, b) == IF a < b THEN a ELSE b

Max(a, b) == IF a < b THEN b ELSE a

\* n copies of the character c
Rep(c, n) == [i \in 1..n |-> c]

\* row.get(field, default)
RowGet(r, f, default) == IF r[f].k = "absent" THEN default ELSE r[f]

\* str(value) of a cell: str(None) is "None"
PyStr(v) == IF v.k = "none" THEN <<"N", "o", "n", "e">> ELSE v.s

\* truthiness of a cell: None and "" are falsy
Truthy(v) == v.k = "str" /\ v.s # <<>>

\* s[:n]
Slice(s, n) == SubSeq(s, 1, Min(n, Len(s)))

IsSpace(c) == c \in {" ", "\t", "\n"}

\* str.strip()
Strip(s) ==
    LET keep == {i \in 1..Len(s) : ~IsSpace(s[i])}
    IN  IF keep = {} THEN <<>>
        ELSE LET lo == CHOOSE i \in keep : \A j \in keep : i <= j
                 hi == CHOOSE i \in keep : \A j \in keep : j <= i
             IN  SubSeq(s, lo, hi)

UpperChars == <<"A", "B", "C", "D", "E", "F", "G", "H", "I", "J", "K", "L", "M",
                "N", "O", "P", "Q", "R", "S", "T", "U", "V", "W", "X", "Y", "Z">>

LowerChars == <<"a", "b", "c", "d", "e", "f", "g", "h", "i", "j", "k", "l", "m",
                "n", "o", "p", "q", "r", "s", "t", "u", "v", "w", "x", "y", "z">>

LowerChar(c) ==
    IF \E i \in 1..26 : UpperChars[i] = c
    THEN LowerChars[CHOOSE i \in 1..26 : UpperChars[i] = c]
    ELSE c

\* str.lower()
Lower(s) == [i \in 1..Len(s) |-> LowerChar(s[i])]

DigitChars == <<"0", "1", "2", "3", "4", "5", "6", "7", "8", "9">>

IsDigit(c) == \E i \in 1..10 : DigitChars[i] = c

DigitVal(c) == (CHOOSE i \in 1..10 : DigitChars[i] = c) - 1

RECURSIVE Digits(_)
\* the decimal digits of a natural number
Digits(n) == IF n < 10 THEN <<DigitChars[n + 1]>>
             ELSE Digits(n \div 10) \o <<DigitChars[(n % 10) + 1]>>

(* ------------------------ generate_simple_row_key --------------------- *)

KeyWidth == 8

PlatformMax == 10

PostIdMax == 8

\* a faulty variant: the counter cut to its last KeyWidth digits
Format08dWrap(counter) ==
    LET d == Digits(counter)
    IN  IF Len(d) >= KeyWidth THEN SubSeq(d, Len(d) - KeyWidth + 1, Len(d))
        ELSE Rep("0", KeyWidth - Len(d)) \o d

\* f"{counter:08d}" of a counter >= 0: zero-padded to at least 8 digits
Format08d(counter) ==
    LET d == Digits(counter)
    IN  Rep("0", Max(0, KeyWidth - Len(d))) \o d

Raised == [ok |-> FALSE, val |-> <<>>]

Returned(v) == [ok |-> TRUE, val |-> v]

unknown == <<"u", "n", "k", "n", "o", "w", "n">>

\* a faulty variant: the Post ID is not cut
generate_simple_row_key_long(r, counter) ==
    LET p == RowGet(r, "Platform", Str(unknown))
        post_id == PyStr(RowGet(r, "Post ID", Str(<<>>)))
    IN  IF p.k = "none" THEN Raised
        ELSE Returned(Slice(p.s, PlatformMax) \o <<"_">> \o post_id \o <<"_">>
                      \o Format08d(counter))

\* None[:10] raises TypeError; the other steps cannot raise
generate_simple_row_key(r, counter) ==
    LET p == RowGet(r, "Platform", Str(unknown))
        post_id == PyStr(RowGet(r, "Post ID", Str(<<>>)))
        post_id_short == IF Len(post_id) > PostIdMax THEN Slice(post_id, PostIdMax)
                         ELSE post_id
    IN  IF p.k = "none" THEN Raised
        ELSE Returned(Slice(p.s, PlatformMax) \o <<"_">> \o post_id_short \o <<"_">>
                      \o Format08d(counter))

(* ----------------------------- numbers --------------------------------- *)

AllDigits(s) == \A i \in 1..Len(s) : IsDigit(s[i])

AllZeros(s) == \A i \in 1..Len(s) : s[i] = "0"

\* a digit string without its leading zeros ("0" for zero)
StripZeros(d) ==
    LET nz == {i \in 1..Len(d) : d[i] # "0"}
    IN  IF nz = {} THEN <<"0">>
        ELSE SubSeq(d, CHOOSE i \in nz : \A j \in nz : i <= j, Len(d))

\* a fraction's digits without its trailing zeros (empty for zero)
StripTrailingZeros(d) ==
    LET nz == {i \in 1..Len(d) : d[i] # "0"}
    IN  IF nz = {} THEN <<>>
        ELSE SubSeq(d, 1, CHOOSE i \in nz : \A j \in nz : j <= i)

RECURSIVE LexLess(_, _)
LexLess(a, b) ==
    IF a = <<>> THEN FALSE
    ELSE IF DigitVal(Head(a)) # DigitVal(Head(b)) THEN DigitVal(Head(a)) < DigitVal(Head(b))
    ELSE LexLess(Tail(a), Tail(b))

\* a < b for two naturals given by their digits
NatLess(a, b) ==
    LET x == StripZeros(a)
        y == StripZeros(b)
    IN  Len(x) < Len(y) \/ (Len(x) = Len(y) /\ LexLess(x, y))

RECURSIVE Increment(_)
\* the digits of n + 1
Increment(d) ==
    IF d = <<>> THEN <<"1">>
    ELSE IF d[Len(d)] = "9" THEN Increment(SubSeq(d, 1, Len(d) - 1)) \o <<"0">>
    ELSE SubSeq(d, 1, Len(d) - 1) \o <<DigitChars[DigitVal(d[Len(d)]) + 2]>>

NoFloat == [ok |-> FALSE, kind |-> "none", neg |-> FALSE, ip |-> <<>>, fp |-> <<>>]

Float(kind, neg, ip, fp) == [ok |-> TRUE, kind |-> kind, neg |-> neg, ip |-> ip, fp |-> fp]

\* the digits around the point at position d of body (d past the end: no point)
ParseDigits(neg, body, d) ==
    IF /\ AllDigits(SubSeq(body, 1, d - 1))
       /\ AllDigits(SubSeq(body, d + 1, Len(body)))
       /\ Len(SubSeq(body, 1, d - 1)) + Len(SubSeq(body, d + 1, Len(body))) > 0
    THEN Float("fin", neg, SubSeq(body, 1, d - 1), SubSeq(body, d + 1, Len(body)))
    ELSE NoFloat

\* the unsigned part of a float literal
ParseBody(neg, body) ==
    IF Lower(body) = <<"n", "a", "n">> THEN Float("nan", neg, <<>>, <<>>)
    ELSE IF Lower(body) \in {<<"i", "n", "f">>, <<"i", "n", "f", "i", "n", "i", "t", "y">>}
    THEN Float("inf", neg, <<>>, <<>>)
    ELSE IF Cardinality({i \in 1..Len(body) : body[i] = "."}) > 1 THEN NoFloat
    ELSE IF \E i \in 1..Len(body) : body[i] = "."
    THEN ParseDigits(neg, body, CHOOSE i \in 1..Len(body) : body[i] = ".")
    ELSE ParseDigits(neg, body, Len(body) + 1)

\* float(s) of a str without exponent or digit-group underscores: surrounding
\* whitespace is dropped, then [sign] (inf | infinity | nan, in any case), or
\* [sign] digits [. digits] with a digit on one side of the point at least.
\* ok = FALSE is ValueError.  A finite value is kept as its decimal digits.
ParseStripped(t) ==
    IF t # <<>> /\ t[1] \in {"+", "-"} THEN ParseBody(t[1] = "-", Tail(t))
    ELSE ParseBody(FALSE, t)

ParseFloat(s) == ParseStripped(Strip(s))

\* the unsigned part of an int literal
ParseIntBody(neg, body) ==
    IF body # <<>> /\ AllDigits(body) THEN Float("fin", neg, body, <<>>) ELSE NoFloat

ParseIntStripped(t) ==
    IF t # <<>> /\ t[1] \in {"+", "-"} THEN ParseIntBody(t[1] = "-", Tail(t))
    ELSE ParseIntBody(FALSE, t)

\* int(s) of a str without digit-group underscores: [sign] digits
ParseInt(s) == ParseIntStripped(Strip(s))

\* float.is_integer()
is_integer(x) == x.kind = "fin" /\ AllZeros(x.fp)

\* a digit string with a "-" in front
Signed(neg, d) == IF neg THEN <<"-">> \o d ELSE d

\* str(int(x)) of a whole float x
IntStr(x) == Signed(x.neg /\ ~AllZeros(x.ip), StripZeros(x.ip))

\* the digits after the point of a repr: "0" for none
FractionStr(f) == IF f = <<>> THEN <<"0">> ELSE f

\* repr of a finite float given by its decimal digits (below 1e16, so no exponent)
FloatStr(neg, ip, fp) ==
    Signed(neg, StripZeros(ip)) \o <<".">> \o FractionStr(StripTrailingZeros(fp))

\* str(float(s)) of a parsed float, unrounded
ReprFloat(x) ==
    IF x.kind = "nan" THEN <<"n", "a", "n">>
    ELSE IF x.kind = "inf" THEN Signed(x.neg, <<"i", "n", "f">>)
    ELSE FloatStr(x.neg, x.ip, x.fp)

\* the digits kept are rounded up: the rest is above a half, or is a half and the
\* last digit kept is odd
RoundsUp(kept, rest) ==
    \/ DigitVal(rest[1]) > 5
    \/ /\ rest[1] = "5"
       /\ \/ ~AllZeros(Tail(rest))
          \/ DigitVal(kept[Len(kept)]) % 2 = 1

\* the repr of the number whose digits are n, the last two after the point
Point2(neg, n) == FloatStr(neg, SubSeq(n, 1, Len(n) - 2), SubSeq(n, Len(n) - 1, Len(n)))

\* kept: the digits up to the second decimal; rest: the digits after it
RoundKept(neg, kept, rest) ==
    IF RoundsUp(kept, rest) THEN Point2(neg, Increment(kept)) ELSE Point2(neg, kept)

\* a faulty variant: round(x, 3)
RoundDigits3(neg, ip, f) == FloatStr(neg, ip, SubSeq(f, 1, 3))

\* f: the fraction's digits, three at least
RoundDigits(neg, ip, f) == RoundKept(neg, ip \o SubSeq(f, 1, 2), SubSeq(f, 3, Len(f)))

\* str(round(x, 2)): the nearest value with two decimals, a tie going to the even
\* digit (the decimal tie is the float's tie only when the float is exact, as for
\* the eighths; other ties are kept out of the inputs).  nan and inf are unchanged.
Round2Str(x) ==
    IF x.kind # "fin" THEN ReprFloat(x)
    ELSE RoundDigits(x.neg, x.ip, x.fp \o Rep("0", Max(0, 3 - Len(x.fp))))

(* ----------------------------- _safe_convert -------------------------- *)

Int32Limit == 2147483647

PyInt(s) == [k |-> "int", s |-> s]

PyFloat(s) == [k |-> "float", s |-> s]

PyNone == [k |-> "null", s |-> <<>>]

NumSentinels == {<<>>, <<"n", "a", "n">>, <<"N", "o", "n", "e">>, <<"n", "u", "l", "l">>}

\* the float parsed, as _safe_convert returns it: int(x) for a whole x with
\* abs(x) < 2147483647, else round(x, 2)
ConvertFloat(x) ==
    IF is_integer(x) /\ NatLess(x.ip, Digits(Int32Limit)) THEN PyInt(IntStr(x))
    ELSE PyFloat(Round2Str(x))

\* the outcome of float(value_str): ValueError gives 0
ConvertParsed(x) == IF ~x.ok THEN PyInt(<<"0">>) ELSE ConvertFloat(x)

\* a faulty variant: ValueError gives None
ConvertParsedNone(x) == IF ~x.ok THEN PyNone ELSE ConvertFloat(x)

\* a faulty variant: None, not 0, for a str float() rejects
_safe_convert_none(value) ==
    IF ~Truthy(value) \/ Strip(PyStr(value)) \in NumSentinels THEN PyInt(<<"0">>)
    ELSE ConvertParsedNone(ParseFloat(Strip(PyStr(value))))

\* The value _safe_convert returns, with its str(): 0 for None, "", a sentinel or
\* a str float() rejects; int(x) for a whole x with abs(x) < 2147483647; else
\* round(x, 2).
_safe_convert(value) ==
    IF ~Truthy(value) \/ Strip(PyStr(value)) \in NumSentinels THEN PyInt(<<"0">>)
    ELSE ConvertParsed(ParseFloat(Strip(PyStr(value))))

(* ----------------------------- str.encode ------------------------------ *)

\* the printable ASCII characters, code 32 at index 1 (the apostrophe and the
\* grave accent are written by their code points, as is the non-ASCII U+00E9)
AsciiChars == <<" ", "!", "\"", "#", "$", "%", "&", "U+0027", "(", ")", "*", "+", ",", "-", ".", "/",
                "0", "1", "2", "3", "4", "5", "6", "7", "8", "9", ":", ";", "<", "=", ">", "?",
                "@", "A", "B", "C", "D", "E", "F", "G", "H", "I", "J", "K", "L", "M", "N", "O",
                "P", "Q", "R", "S", "T", "U", "V", "W", "X", "Y", "Z", "[", "\\", "]", "^", "_",
                "U+0060", "a", "b", "c", "d", "e", "f", "g", "h", "i", "j", "k", "l", "m", "n", "o",
                "p", "q", "r", "s", "t", "u", "v", "w", "x", "y", "z", "{", "|", "}", "~">>

\* the UTF-8 bytes of one character: one byte for ASCII, two for U+00E9
Utf8Char(c) ==
    IF c = "\t" THEN <<9>>
    ELSE IF c = "\n" THEN <<10>>
    ELSE IF c = "U+00E9" THEN <<195, 169>>
    ELSE <<31 + (CHOOSE i \in 1..Len(AsciiChars) : AsciiChars[i] = c)>>

RECURSIVE Encode(_)
\* str.encode of utf-8
Encode(s) ==
    IF s = <<>> THEN <<>>
    ELSE IF Len(s) = 1 THEN Utf8Char(s[1])
    ELSE LET h == Len(s) \div 2
         IN  Encode(SubSeq(s, 1, h)) \o Encode(SubSeq(s, h + 1, Len(s)))

(* ------------------------- prepare_simple_data ------------------------ *)

BasicFields == {"Platform", "Post ID", "Post Type", "Post Content", "Post Timestamp",
                "Audience Age", "Audience Gender", "Audience Location",
                "Audience Interests", "Campaign ID", "Sentiment", "Influencer ID"}

MetricFields == {"Likes", "Comments", "Shares", "Impressions", "Reach", "Engagement Rate"}

KnownFields == BasicFields \cup MetricFields

\* a CSV header the field tables do not name
UnknownFields == {"Views"}

AllFields == KnownFields \cup UnknownFields

basic_mapping ==
    [f \in BasicFields |->
        CASE f = "Platform" -> "cf:platform"
          [] f = "Post ID" -> "cf:post_id"
          [] f = "Post Type" -> "cf:post_type"
          [] f = "Post Content" -> "cf:post_content"
          [] f = "Post Timestamp" -> "cf:post_timestamp"
          [] f = "Audience Age" -> "cf:audience_age"
          [] f = "Audience Gender" -> "cf:audience_gender"
          [] f = "Audience Location" -> "cf:audience_location"
          [] f = "Audience Interests" -> "cf:audience_interests"
          [] f = "Campaign ID" -> "cf:campaign_id"
          [] f = "Sentiment" -> "cf:sentiment"
          [] f = "Influencer ID" -> "cf:influencer_id"]

metrics_mapping ==
    [f \in MetricFields |->
        CASE f = "Likes" -> "metrics:likes"
          [] f = "Comments" -> "metrics:comments"
          [] f = "Shares" -> "metrics:shares"
          [] f = "Impressions" -> "metrics:impressions"
          [] f = "Reach" -> "metrics:reach"
          [] f = "Engagement Rate" -> "metrics:engagement_rate"]

PostContentMax == 500

InterestsMax == 200

LocationMax == 100

StandardMax == 50

\* a faulty variant: the post content cut of the other variant
TextMaxLong(f) ==
    CASE f = "Post Content" -> 2 * PostContentMax
      [] f = "Audience Interests" -> InterestsMax
      [] f = "Audience Location" -> LocationMax
      [] OTHER -> StandardMax

\* the cut of a text field
TextMax(f) ==
    CASE f = "Post Content" -> PostContentMax
      [] f = "Audience Interests" -> InterestsMax
      [] f = "Audience Location" -> LocationMax
      [] OTHER -> StandardMax

TextSentinels == {<<"n", "a", "n">>, <<"n", "o", "n", "e">>, <<>>}

\* value and value.lower() not in [nan, none, empty]
KeptText(value) == value # <<>> /\ Lower(value) \notin TextSentinels

\* the stripped str of a text cell
TextValue(r, f) == Strip(PyStr(RowGet(r, f, Str(<<>>))))

TextKept(r, f) == KeptText(TextValue(r, f))

\* a faulty variant: Audience Age goes through _safe_convert like a metric
TextColumnAgeNumeric(r, f) ==
    IF f = "Audience Age" THEN _safe_convert(RowGet(r, f, Str(<<"0">>))).s
    ELSE Slice(TextValue(r, f), TextMax(f))

\* the value of the cf column of a text field that is kept: cut
TextColumn(r, f) == Slice(TextValue(r, f), TextMax(f))

\* the value self._safe_convert(row.get(csv_field, 0 as str)) of a metric field
MetricValue(r, f) == _safe_convert(RowGet(r, f, Str(<<"0">>)))

\* the field of a column
FieldOf(mapping, c) == CHOOSE f \in DOMAIN mapping : mapping[f] = c

\* the keys of the data dict: the text fields kept, the metrics that are not None
Columns(r) ==
    {basic_mapping[f] : f \in {g \in BasicFields : TextKept(r, g)}}
    \cup {metrics_mapping[f] : f \in {g \in MetricFields : MetricValue(r, g).k # "null"}}

\* a faulty variant: a header the field table does not name is copied as well
ColumnStringsEveryField(r) ==
    [c \in Columns(r) \cup {"cf:views" : f \in {g \in UnknownFields : TextKept(r, g)}} |->
        IF c = "cf:views" THEN TextColumn(r, "Views")
        ELSE IF \E f \in BasicFields : basic_mapping[f] = c
        THEN TextColumn(r, FieldOf(basic_mapping, c))
        ELSE MetricValue(r, FieldOf(metrics_mapping, c)).s]

\* The data dict before it is encoded, column name -> str: a text field that is
\* kept, cut; a metric whose _safe_convert is not None, as str(value).
ColumnStrings(r) ==
    [c \in Columns(r) |->
        IF \E f \in BasicFields : basic_mapping[f] = c
        THEN TextColumn(r, FieldOf(basic_mapping, c))
        ELSE MetricValue(r, FieldOf(metrics_mapping, c)).s]

\* the entries of the data dict whose value is not blank, encoded
EncodeData(d) ==
    [c \in {k \in DOMAIN d : d[k] # <<>> /\ Strip(d[k]) # <<>>} |-> Encode(d[c])]

\* The bytes dict prepare_simple_data returns.
prepare_simple_data(r) == EncodeData(ColumnStrings(r))

(* ----------------------- sqlite_loader: prepare_data ------------------ *)

SqlSentinels == {<<>>, <<"n", "a", "n">>, <<"N", "o", "n", "e">>}

SqlText(s) == [k |-> "text", s |-> s]

\* clean_value: None for a falsy or sentinel cell, else the stripped str
clean_value(value) ==
    IF ~Truthy(value) \/ Strip(PyStr(value)) \in SqlSentinels THEN PyNone
    ELSE SqlText(Strip(PyStr(value)))

\* float(value) or None
FloatOrNone(x) == IF x.ok THEN PyFloat(ReprFloat(x)) ELSE PyNone

\* int(value) or None
IntOrNone(x) == IF x.ok THEN PyInt(IntStr(x)) ELSE PyNone

\* a faulty variant: 0 where convert_to_number returns None
convert_to_number_zero(value) ==
    IF ~Truthy(value) \/ Strip(PyStr(value)) \in SqlSentinels THEN PyInt(<<"0">>)
    ELSE IF \E i \in 1..Len(value.s) : value.s[i] = "."
    THEN (IF ParseFloat(value.s).ok THEN FloatOrNone(ParseFloat(value.s)) ELSE PyInt(<<"0">>))
    ELSE (IF ParseInt(value.s).ok THEN IntOrNone(ParseInt(value.s)) ELSE PyInt(<<"0">>))

\* convert_to_number: None for a falsy or sentinel cell and for a str that
\* float() (with a point) or int() (without) rejects, else the number
convert_to_number(value) ==
    IF ~Truthy(value) \/ Strip(PyStr(value)) \in SqlSentinels THEN PyNone
    ELSE IF \E i \in 1..Len(value.s) : value.s[i] = "."
    THEN FloatOrNone(ParseFloat(value.s))
    ELSE IntOrNone(ParseInt(value.s))

SqlNumberFields == MetricFields \cup {"Audience Age"}

\* prepare_data: row.get(field) is None for an absent key
prepare_data(r) ==
    [f \in KnownFields |->
        IF f \in SqlNumberFields THEN convert_to_number(RowGet(r, f, NoneVal))
        ELSE clean_value(RowGet(r, f, NoneVal))]

(* ------------------------------- inputs ------------------------------- *)

\* cells of the numeric fields: blank, whole, signed, fractional, around the int32
\* limit, not numbers, and the sentinels in several cases
NumVals ==
    {<<>>,
     <<" ">>,
     <<"0">>,
     <<"7">>,
     <<"1", "5", "0">>,
     <<"-", "5">>,
     <<"+", "5">>,
     <<" ", "1", "2", " ">>,
     <<"0", "0", "7">>,
     <<"1", ".", "0">>,
     <<"5", ".">>,
     <<".", "5">>,
     <<"2", ".", "5">>,
     <<"-", "0", ".", "0">>,
     <<"-", "0", ".", "0", "0", "1">>,
     <<"3", ".", "1", "4", "1", "5", "9">>,
     <<"0", ".", "1", "2", "5">>,
     <<"1", "2", ".", "9", "9", "9">>,
     <<"1", ".", "2", ".", "3">>,
     <<"2", "1", "4", "7", "4", "8", "3", "6", "4", "6">>,
     <<"2", "1", "4", "7", "4", "8", "3", "6", "4", "7">>,
     <<"2", "1", "4", "7", "4", "8", "3", "6", "4", "8">>,
     <<"-", "2", "1", "4", "7", "4", "8", "3", "6", "4", "6">>,
     <<"-", "2", "1", "4", "7", "4", "8", "3", "6", "4", "7">>,
     <<"-", "2", "1", "4", "7", "4", "8", "3", "6", "4", "8">>,
     <<"2", "1", "4", "7", "4", "8", "3", "6", "4", "6", ".", "5">>,
     <<"N", "/", "A">>,
     <<"a", "b", "c">>,
     <<"n", "a", "n">>,
     <<"N", "a", "N">>,
     <<"N", "A", "N">>,
     <<" ", "n", "a", "n", " ">>,
     <<"-", "n", "a", "n">>,
     <<"N", "o", "n", "e">>,
     <<"n", "o", "n", "e">>,
     <<"N", "O", "N", "E">>,
     <<"n", "u", "l", "l">>,
     <<"N", "u", "l", "l">>,
     <<"N", "U", "L", "L">>,
     <<"i", "n", "f">>,
     <<"-", "i", "n", "f">>,
     <<"I", "n", "f", "i", "n", "i", "t", "y">>}

\* cells of the text fields: blank, padded, the sentinels in several cases, non-ASCII
ShortTextVals ==
    {<<>>,
     <<" ">>,
     <<"a">>,
     <<" ", "a", " ", "b", " ">>,
     <<"\t", "a">>,
     <<"0">>,
     <<"N", "/", "A">>,
     <<"n", "a", "n">>,
     <<"N", "a", "N">>,
     <<" ", "n", "a", "n", " ">>,
     <<"n", "o", "n", "e">>,
     <<"N", "o", "n", "e">>,
     <<"N", "O", "N", "E">>,
     <<"n", "u", "l", "l">>,
     <<"N", "u", "l", "l">>,
     <<"N", "U", "L", "L">>,
     <<"n", "a", "n", "o">>,
     <<"I", "n", "s", "t", "a", "g", "r", "a", "m">>,
     <<"U+00E9">>,
     <<"2", "5">>,
     <<"a", "b", "c">>}

\* Platform cells: blank, with "_", shorter and longer than the cut
PlatformVals ==
    {<<>>,
     <<"a", "_", "b">>,
     <<"I", "n", "s", "t", "a", "g", "r", "a", "m">>,
     <<"L", "i", "n", "k", "e", "d", "I", "n", "_", "0", "0">>}

\* Post ID cells: with "_" and digits, as long as and longer than the cut
PostIdVals ==
    {<<"b", "_", "1">>,
     <<"1", "2", "3", "4", "5", "6", "7", "8">>,
     <<"a", "b", "c", "1", "2", "3", "4", "5", "6", "7", "8">>}

GenChars == {"0", "7", "-", ".", " "}

RECURSIVE GenStrings(_)
\* every string over GenChars of length n at most
GenStrings(n) ==
    IF n = 0 THEN {<<>>}
    ELSE LET shorter == GenStrings(n - 1)
         IN  shorter \cup {s \o <<c>> : s \in shorter, c \in GenChars}

TextCuts == {PostContentMax, InterestsMax, LocationMax, StandardMax}

\* text cells about as long as a cut: plain, padded, with inner blanks at the cut,
\* and of two-byte characters
LongTextVals ==
    UNION {{Rep("x", n) : n \in (L - 1)..(L + MaxExtra)}
           \cup {<<" ">> \o Rep("x", L + MaxExtra) \o <<" ">>,
                 <<"a">> \o Rep(" ", L - 1) \o <<"b">>,
                 Rep("U+00E9", L + MaxExtra)} : L \in TextCuts}

TextVals == ShortTextVals \cup LongTextVals \cup GenStrings(MaxGenLen)

Cells(vals) == {Absent, NoneVal} \cup {Str(s) : s \in vals}

\* the cells a field is drawn from; Audience Age is drawn from both kinds
FieldCells(f) ==
    IF f \in MetricFields THEN Cells(NumVals \cup GenStrings(MaxGenLen))
    ELSE IF f = "Audience Age" THEN Cells(TextVals \cup NumVals)
    ELSE IF f \in UnknownFields THEN Cells(ShortTextVals)
    ELSE Cells(TextVals)

\* a row dict without any key
EmptyRow == [f \in AllFields |-> Absent]

\* the row of a line that ends after its first cells: None for the others
ShortRow == [f \in AllFields |-> NoneVal]

\* the row of the example of the key format, completed
FullRow ==
    [f \in AllFields |->
        CASE f = "Platform" -> Str(<<"I", "n", "s", "t", "a", "g", "r", "a", "m">>)
          [] f = "Post ID" -> Str(<<"a", "b", "c", "1", "2", "3", "4", "5", "6", "7", "8">>)
          [] f = "Likes" -> Str(<<"1", "5", "0">>)
          [] f = "Engagement Rate" -> Str(<<"3", ".", "1", "4", "1", "5", "9">>)
          [] f = "Audience Age" -> Str(<<"2", "5">>)
          [] f \in MetricFields -> Str(<<"7">>)
          [] OTHER -> Str(<<"a", "b", "c">>)]

BaseRows == {EmptyRow, FullRow}

\* the rows shaped: a base row with one cell replaced, and the short row
Rows ==
    UNION {{[b EXCEPT ![f] = v] : b \in BaseRows, v \in FieldCells(f)} : f \in AllFields}
    \cup {ShortRow}

\* the rows keyed: Platform and Post ID vary together
KeyRows ==
    {[EmptyRow EXCEPT !["Platform"] = p, !["Post ID"] = q] :
        p \in Cells(PlatformVals), q \in Cells(PostIdVals)}

\* the row indexes observed; enumerate passes through every index between
CounterVals == {0, 3, 99999999, 100000000, 100000001}

(* ------------------------ load_batch_with_retry ----------------------- *)

\* self.max_retries
max_retries == 3

\* the cap of a micro-batch
MicroBatchMax == 500

\* self.batch_size
batch_size == 2000

\* the SQLite loader commits when this many more records are inserted
CommitEvery == 1000

\* What HBase does with the writes of one attempt: the connection is down
\* (table() raises), every write is accepted, grouped writes are refused,
\* every record is refused, the first record of the batch is refused, every
\* record but the first is refused, or the connection dies during the first
\* grouped send, after HBase has stored the first record of the micro-batch.
Weathers == {"down", "fine", "no_batch", "all_bad", "first_bad", "first_only", "dying"}

\* what HBase does during the attempts of a load
LoadWeathers == {"down", "fine", "first_bad", "dying"}

\* table.put of the record at position p of the batch raises
PutFails(w, p) ==
    \/ w \in {"all_bad", "dying"}
    \/ w = "first_bad" /\ p = 1
    \/ w = "first_only" /\ p # 1

\* the grouped write of the records at positions lo..hi raises
GroupedFails(w, lo, hi) ==
    \/ w \in {"no_batch", "dying"}
    \/ \E p \in lo..hi : PutFails(w, p)

\* the positions HBase stored before the grouped write raised
GroupedStored(w, lo, hi) == IF w = "dying" THEN {lo} ELSE {}

\* batch_size = min(500, len(batch_data))
MicroSize(n) == Min(MicroBatchMax, n)

\* the last position of the micro-batch batch_data[i:i + batch_size]
MicroEnd(i, n) == Min(i + MicroSize(n), n)

\* a faulty variant: the first failing put ends the fallback loop
FallbackTriedBreak(w, lo, hi) ==
    {p \in lo..hi : \A q \in lo..(p - 1) : ~PutFails(w, q)}

\* the positions the fallback loop puts one by one: a failing put is logged and
\* the loop continues
FallbackTried(w, lo, hi) == lo..hi

\* the positions whose single put is counted
FallbackCounted(w, lo, hi) == {p \in FallbackTried(w, lo, hi) : ~PutFails(w, p)}

\* a faulty variant: an attempt that leaves a record unwritten is repeated
SucceededWhole(count, n) == count = n

\* if success_count > 0
Succeeded(count, n) == count > 0

\* a faulty variant: no handler around the attempt
AttemptExceptNone == "raised"

\* where an exception raised by the attempt goes: the handler of the attempt
\* logs it and the for loop takes the next attempt
AttemptExcept == "attempt"

SuccessResult(count, att) == [success |-> TRUE, records |-> count, attempt |-> att + 1]

FailureResult == [success |-> FALSE, records |-> 0, attempt |-> max_retries]

\* no call has returned
NoResult == [success |-> FALSE, records |-> -1, attempt |-> 0]

\* nothing counted or put for the n records of a batch
NoneOf(n) == [p \in 1..n |-> 0]

\* f with one more at the positions of S
Inc(f, S) == [p \in DOMAIN f |-> IF p \in S THEN f[p] + 1 ELSE f[p]]

(* ------------------------- load_data_sequential ----------------------- *)

\* the row of a line with one cell
ShortLine == [ShortRow EXCEPT !["Post ID"] = Str(<<"a">>)]

\* The files loaded: len data lines, all the example row, except that the
\* first line may be short (fault "short"), or the first or the last line
\* undecodable, so that the reader raises when it reaches it (fault "reader").
FileLens == {0, 1, batch_size} \cup {k * batch_size + 1 : k \in 1..MaxFullBatches}

Files ==
    {[loader |-> "hbase", len |-> n, fault |-> "none", at |-> 0] : n \in FileLens}
    \cup {[loader |-> "hbase", len |-> n, fault |-> k, at |-> 0] :
            n \in FileLens \ {0}, k \in {"short", "reader"}}
    \cup {[loader |-> "hbase", len |-> n, fault |-> "reader", at |-> n - 1] :
            n \in FileLens \ {0}}

\* The files the SQLite loader loads: a line may be undecodable (fault
\* "reader"), short, or refused by the INSERT (fault "insert"), or the
\* database refuses to commit (fault "commit").
\* The database may also refuse the commits issued while the file is read
\* (fault "periodic").
BasicFileLens ==
    {0, 1, 2, 3} \cup {k * CommitEvery + d : k \in 1..MaxCommits, d \in {0, 1}}

BasicFiles ==
    {[loader |-> "sqlite", len |-> n, fault |-> k, at |-> 0] :
        n \in BasicFileLens, k \in {"none", "commit"}}
    \cup {[loader |-> "sqlite", len |-> n, fault |-> "periodic", at |-> 0] :
            n \in {m \in BasicFileLens : m >= CommitEvery}}
    \cup UNION {{[loader |-> "sqlite", len |-> n, fault |-> k, at |-> a] :
                    k \in {"short", "reader", "insert"}, a \in {0, n - 1}} :
                n \in BasicFileLens \ {0}}

NoFile == [loader |-> "hbase", len |-> 0, fault |-> "none", at |-> 0]

\* cursor.execute raises for the row at index idx
ExecuteRaises(f, idx) == f.fault = "insert" /\ f.at = idx

\* the last self.connection.commit() raises
CommitRaises(f) == f.fault = "commit"

\* a self.connection.commit() issued inside the loop raises
PeriodicCommitRaises(f) == f.fault = "periodic"

\* if successful_records % 1000 == 0
CommitDue(successful) == successful % CommitEvery = 0

\* next(reader) raises at row index idx
ReaderRaises(f, idx) == f.fault = "reader" /\ f.at = idx

\* the row dict the reader yields at row index idx
RowOf(f, idx) == IF f.fault = "short" /\ f.at = idx THEN ShortLine ELSE FullRow

FullRowData == prepare_simple_data(FullRow)

ShortLineData == prepare_simple_data(ShortLine)

\* data = self.prepare_simple_data(row)
RowData(f, idx) == IF f.fault = "short" /\ f.at = idx THEN ShortLineData ELSE FullRowData

\* a faulty variant: the row is keyed with its position in the batch
RowKeyInBatch(f, idx) == generate_simple_row_key(RowOf(f, idx), idx % batch_size)

\* row_key = self.generate_simple_row_key(row, row_idx)
RowKey(f, idx) == generate_simple_row_key(RowOf(f, idx), idx)

RECURSIVE KeyText(_)
\* the characters of a row key as the one string the table stores the row under
KeyText(s) == IF s = <<>> THEN "" ELSE Head(s) \o KeyText(Tail(s))

\* the tuple (row_key, data) of the row at index idx: the key, and the index
\* for the columns of the row
Entry(f, idx) == [row_key |-> KeyText(RowKey(f, idx).val), row |-> idx]

\* the keys of the entries at the positions S of a batch
KeysAt(batch, S) == {batch[p].row_key : p \in S}

\* the rows of the entries at the positions S of a batch
RowsAt(batch, S) == {batch[p].row : p \in S}

\* self.performance_metrics once main has connected (and, for SQLite, created
\* the table).  A measured time is written by its name; records_per_second is
\* in records per total_time of the load.
ConnectedMetrics(loader) ==
    IF loader = "hbase"
    THEN [load_time |-> "0", records_per_second |-> 0, total_records |-> 0,
          batch_times |-> <<>>, connection_time |-> "connection_time"]
    ELSE [connection_time |-> "connection_time",
          table_creation_time |-> "table_creation_time", load_time |-> "0",
          records_per_second |-> 0, total_records |-> 0, successful_records |-> 0]

\* (successful_records / total_records * 100) if total_records > 0 else 0, as
\* the fraction num / den
SuccessRate(successful, total) ==
    IF total > 0 THEN [num |-> successful * 100, den |-> total]
                 ELSE [num |-> 0, den |-> 1]

\* the mapping load_data_basic hands to self.performance_metrics.update
BasicUpdate(total, successful) ==
    [load_time |-> "total_time", total_records |-> total,
     successful_records |-> successful, records_per_second |-> successful,
     success_rate |-> SuccessRate(successful, total)]

\* the mapping load_data_sequential hands to self.performance_metrics.update
SequentialUpdate(total, successful, batches) ==
    [b \in {"total_batches"} |-> batches] @@ BasicUpdate(total, successful)

\* if result['success']: self.performance_metrics['batch_times'].append(
\* result['time']); the time is written as the number of the batch it measures
BatchTimed(metrics, res, id) ==
    IF res.success
    THEN [metrics EXCEPT !.batch_times = Append(@, id)]
    ELSE metrics

\* no load and no call of load_batch_with_retry is in progress
LoaderIdle ==
    /\ file = NoFile
    /\ l_pc = "idle"
    /\ total_records = 0
    /\ successful_records = 0
    /\ batch_count = 0
    /\ current_batch = <<>>
    /\ submitted = <<>>
    /\ ret = "none"
    /\ total_batches = -1
    /\ performance_metrics = ConnectedMetrics(file.loader)
    /\ committed = 0
    /\ b_pc = "idle"
    /\ batch_data = <<>>
    /\ attempt = 0
    /\ weather = "fine"
    /\ offset = 0
    /\ success_count = 0
    /\ counted = <<>>
    /\ tried = <<>>
    /\ result = NoResult
    /\ attempts = <<>>
    /\ table = {}
    /\ stored = {}

(* ----------------------------- specification -------------------------- *)

NoKey == Returned(<<>>)

NoData == [c \in {} |-> <<>>]

NoSqlData == [f \in KnownFields |-> PyNone]

Workers == 1..NumWorkers

\* a worker outside the shaper
Idle == [pc |-> "idle", row |-> EmptyRow, counter |-> 0, key |-> NoKey, out |-> NoData]

\* no mutation, no row
NoRows == [k \in {} |-> 0]

\* the performance experiment is not running
ExperimentIdle ==
    /\ csv = [post_id |-> TRUE, ids |-> <<>>]
    /\ e_pc = "idle"
    /\ row_count = 0
    /\ e_batch = NoRows
    /\ hbase_table = NoRows
    /\ sqlite_table = <<>>
    /\ data_stats = 0

\* main is not running
MainIdle ==
    /\ main_loader = "hbase"
    /\ m_pc = "idle"
    /\ steps = <<>>
    /\ connection = "None"
    /\ raised = "none"

\* no call of the shaper is in progress
WorkersIdle ==
    /\ calls = [w \in Workers |-> Idle]
    /\ frames = [w \in Workers |-> NoData]

\* Either a load run begins (no row keyed yet), or the CSV reader has handed a
\* row to a loader, which is about to shape it.
Init ==
    /\ \/ op = "run" /\ row = EmptyRow
       \/ op = "row" /\ row \in Rows
    /\ row_idx = -1
    /\ row_key = NoKey
    /\ prev_idx = -1
    /\ prev_key = NoKey
    /\ data = NoData
    /\ sqlite_data = NoSqlData
    /\ WorkersIdle
    /\ LoaderIdle
    /\ MainIdle
    /\ ExperimentIdle

\* load_data_sequential keys a row with its index; the index grows from row to
\* row, and a raise ends the load.  prev_idx and prev_key keep the row before.
KeyRow ==
    /\ op \in {"run", "key"}
    /\ row_key.ok
    /\ \E r \in KeyRows, c \in CounterVals :
        /\ c > row_idx
        /\ row' = r
        /\ row_idx' = c
        /\ row_key' = generate_simple_row_key(r, c)
    /\ prev_idx' = row_idx
    /\ prev_key' = row_key
    /\ op' = "key"
    /\ UNCHANGED <<data, sqlite_data, workerVars, loaderVars, mainVars, experimentVars>>

\* the HBase loader shapes the row
ShapeRow ==
    /\ op = "row"
    /\ data' = prepare_simple_data(row)
    /\ op' = "hbase"
    /\ UNCHANGED <<row, row_idx, row_key, prev_idx, prev_key, sqlite_data, workerVars, loaderVars,
                   mainVars, experimentVars>>

\* the SQLite loader shapes the row
ShapeRowBasic ==
    /\ op = "row"
    /\ sqlite_data' = prepare_data(row)
    /\ op' = "sqlite"
    /\ UNCHANGED <<row, row_idx, row_key, prev_idx, prev_key, data, workerVars, loaderVars,
                   mainVars, experimentVars>>

Next == KeyRow \/ ShapeRow \/ ShapeRowBasic

Spec == Init /\ [][Next]_vars

(* ----------------------- the shaper called by workers ------------------ *)

\* the rows and row indexes the workers shape
WorkerRows == {EmptyRow, FullRow, [FullRow EXCEPT !["Sentiment"] = Str(<<>>)]}

WorkerCounters == {0, 3}

\* a faulty variant: data is one dict of the loader, shared by the calls
FrameShared(w) == 1

\* the frame that holds the local names of worker w's call: data = {} creates
\* the dict in the frame of the call
Frame(w) == w

\* the cf entries the first loop stores
TextEntries(r) ==
    [c \in {basic_mapping[f] : f \in {g \in BasicFields : TextKept(r, g)}} |->
        TextColumn(r, FieldOf(basic_mapping, c))]

\* the metrics entries the second loop stores
MetricEntries(r) ==
    [c \in {metrics_mapping[f] : f \in {g \in MetricFields : MetricValue(r, g).k # "null"}} |->
        MetricValue(r, FieldOf(metrics_mapping, c)).s]

WorkersInit ==
    /\ op = "workers"
    /\ row = EmptyRow
    /\ row_idx = -1
    /\ row_key = NoKey
    /\ prev_idx = -1
    /\ prev_key = NoKey
    /\ data = NoData
    /\ sqlite_data = NoSqlData
    /\ WorkersIdle
    /\ LoaderIdle
    /\ MainIdle
    /\ ExperimentIdle

\* a worker takes a row and its index and calls generate_simple_row_key
CallKey(w) ==
    /\ calls[w].pc \in {"idle", "done"}
    /\ \E r \in WorkerRows, c \in WorkerCounters :
        calls' = [calls EXCEPT ![w] =
                    [pc |-> "keyed", row |-> r, counter |-> c,
                     key |-> generate_simple_row_key(r, c), out |-> NoData]]
    /\ UNCHANGED <<frames, shapeVars, loaderVars, mainVars, experimentVars>>

\* prepare_simple_data begins: data = {}
CallPrepare(w) ==
    /\ calls[w].pc = "keyed"
    /\ calls[w].key.ok
    /\ frames' = [frames EXCEPT ![Frame(w)] = NoData]
    /\ calls' = [calls EXCEPT ![w].pc = "text"]
    /\ UNCHANGED <<shapeVars, loaderVars, mainVars, experimentVars>>

\* the loop over basic_mapping
TextLoop(w) ==
    /\ calls[w].pc = "text"
    /\ frames' = [frames EXCEPT ![Frame(w)] = TextEntries(calls[w].row) @@ @]
    /\ calls' = [calls EXCEPT ![w].pc = "metrics"]
    /\ UNCHANGED <<shapeVars, loaderVars, mainVars, experimentVars>>

\* the loop over metrics_mapping
MetricsLoop(w) ==
    /\ calls[w].pc = "metrics"
    /\ frames' = [frames EXCEPT ![Frame(w)] = MetricEntries(calls[w].row) @@ @]
    /\ calls' = [calls EXCEPT ![w].pc = "encode"]
    /\ UNCHANGED <<shapeVars, loaderVars, mainVars, experimentVars>>

\* the conversion to bytes, and the return, which ends the frame
EncodeLoop(w) ==
    /\ calls[w].pc = "encode"
    /\ calls' = [calls EXCEPT ![w].pc = "done", ![w].out = EncodeData(frames[Frame(w)])]
    /\ frames' = [frames EXCEPT ![Frame(w)] = NoData]
    /\ UNCHANGED <<shapeVars, loaderVars, mainVars, experimentVars>>

WorkersNext ==
    \E w \in Workers :
        CallKey(w) \/ CallPrepare(w) \/ TextLoop(w) \/ MetricsLoop(w) \/ EncodeLoop(w)

WorkersSpec == WorkersInit /\ [][WorkersNext]_vars

(* ------------------- load_batch_with_retry, step by step --------------- *)

\* the frame of a call of load_batch_with_retry
Call(batch) ==
    /\ b_pc' = "attempt"
    /\ batch_data' = batch
    /\ attempt' = 0
    /\ attempts' = <<>>
    /\ UNCHANGED <<weather, offset, success_count, counted, tried, result, table, stored>>

\* the caller has read the result: the frame is gone
Returned2Caller ==
    /\ b_pc' = "idle"
    /\ batch_data' = <<>>
    /\ attempt' = 0
    /\ attempts' = <<>>
    /\ weather' = "fine"
    /\ offset' = 0
    /\ success_count' = 0
    /\ counted' = <<>>
    /\ tried' = <<>>
    /\ result' = NoResult
    /\ UNCHANGED <<table, stored>>

\* load_batch_with_retry called on its own with the first n rows of a file
BatchLens == {1, 2} \cup {k * MicroBatchMax + d : k \in 1..MaxFullMicro, d \in {0, 1}}

BatchInit ==
    /\ op = "batch"
    /\ row = EmptyRow
    /\ row_idx = -1
    /\ row_key = NoKey
    /\ prev_idx = -1
    /\ prev_key = NoKey
    /\ data = NoData
    /\ sqlite_data = NoSqlData
    /\ WorkersIdle
    /\ MainIdle
    /\ ExperimentIdle
    /\ \E n \in BatchLens :
        /\ file = [loader |-> "hbase", len |-> n, fault |-> "none", at |-> 0]
        /\ batch_data = [p \in 1..n |-> Entry(file, p - 1)]
    /\ l_pc = "caller"
    /\ total_records = 0
    /\ successful_records = 0
    /\ batch_count = 0
    /\ current_batch = <<>>
    /\ submitted = <<>>
    /\ ret = "none"
    /\ total_batches = -1
    /\ performance_metrics = ConnectedMetrics(file.loader)
    /\ committed = 0
    /\ b_pc = "attempt"
    /\ attempt = 0
    /\ weather = "fine"
    /\ offset = 0
    /\ success_count = 0
    /\ counted = <<>>
    /\ tried = <<>>
    /\ result = NoResult
    /\ attempts = <<>>
    /\ table = {}
    /\ stored = {}

\* An attempt begins: table = self.main_connection.table(table_name), then
\* success_count = 0 and the size of the micro-batches.  range(0, 0, 0) raises
\* for an empty batch.
BeginAttempt ==
    /\ b_pc = "attempt"
    /\ attempt < max_retries
    /\ \E w \in IF l_pc = "caller" THEN Weathers ELSE LoadWeathers :
        /\ weather' = w
        /\ IF w = "down" \/ MicroSize(Len(batch_data)) = 0
           THEN /\ b_pc' = AttemptExcept
                /\ attempt' = attempt + 1
                /\ attempts' = Append(attempts, -1)
                /\ UNCHANGED <<offset, success_count, counted, tried>>
           ELSE /\ b_pc' = "micro"
                /\ offset' = 0
                /\ success_count' = 0
                /\ counted' = NoneOf(Len(batch_data))
                /\ tried' = NoneOf(Len(batch_data))
                /\ UNCHANGED <<attempt, attempts>>
    /\ UNCHANGED <<batch_data, result, table, stored, loadVars, shapeVars, workerVars,
                   mainVars, experimentVars>>

\* the grouped write of a micro-batch went through
GroupedWrite(lo, hi) ==
    /\ success_count' = success_count + (hi - lo + 1)
    /\ counted' = Inc(counted, lo..hi)
    /\ table' = table \cup KeysAt(batch_data, lo..hi)
    /\ stored' = stored \cup RowsAt(batch_data, lo..hi)
    /\ UNCHANGED tried

\* the grouped write of a micro-batch raised: its records are put one by one
Fallback(lo, hi) ==
    /\ tried' = Inc(tried, FallbackTried(weather, lo, hi))
    /\ counted' = Inc(counted, FallbackCounted(weather, lo, hi))
    /\ success_count' = success_count + Cardinality(FallbackCounted(weather, lo, hi))
    /\ table' = table \cup KeysAt(batch_data,
                    GroupedStored(weather, lo, hi) \cup FallbackCounted(weather, lo, hi))
    /\ stored' = stored \cup RowsAt(batch_data,
                    GroupedStored(weather, lo, hi) \cup FallbackCounted(weather, lo, hi))

\* one turn of the loop over the micro-batches
MicroBatch ==
    /\ b_pc = "micro"
    /\ offset < Len(batch_data)
    /\ IF GroupedFails(weather, offset + 1, MicroEnd(offset, Len(batch_data)))
       THEN Fallback(offset + 1, MicroEnd(offset, Len(batch_data)))
       ELSE GroupedWrite(offset + 1, MicroEnd(offset, Len(batch_data)))
    /\ offset' = offset + MicroSize(Len(batch_data))
    /\ UNCHANGED <<b_pc, batch_data, attempt, weather, result, attempts,
                   loadVars, shapeVars, workerVars, mainVars, experimentVars>>

\* after the micro-batches: return the count, or take the next attempt
EndAttempt ==
    /\ b_pc = "micro"
    /\ offset >= Len(batch_data)
    /\ attempts' = Append(attempts, success_count)
    /\ IF Succeeded(success_count, Len(batch_data))
       THEN /\ result' = SuccessResult(success_count, attempt)
            /\ b_pc' = "returned"
            /\ UNCHANGED attempt
       ELSE /\ attempt' = attempt + 1
            /\ b_pc' = "attempt"
            /\ UNCHANGED result
    /\ UNCHANGED <<batch_data, weather, offset, success_count, counted, tried, table,
                   stored, loadVars, shapeVars, workerVars, mainVars, experimentVars>>

\* the attempts are used up
GiveUp ==
    /\ b_pc = "attempt"
    /\ attempt >= max_retries
    /\ result' = FailureResult
    /\ b_pc' = "returned"
    /\ UNCHANGED <<batch_data, attempt, weather, offset, success_count, counted, tried,
                   attempts, table, stored, loadVars, shapeVars, workerVars, mainVars, experimentVars>>

BatchNext == BeginAttempt \/ MicroBatch \/ EndAttempt \/ GiveUp

BatchSpec == BatchInit /\ [][BatchNext]_vars

(* -------------------- load_data_sequential, step by step --------------- *)

\* a row left in the table by an earlier load
OldTable == {KeyText(RowKey(NoFile, 0).val)}

\* main has connected; the table may exist from an earlier load
LoadInit ==
    /\ op = "load"
    /\ row = EmptyRow
    /\ row_idx = -1
    /\ row_key = NoKey
    /\ prev_idx = -1
    /\ prev_key = NoKey
    /\ data = NoData
    /\ sqlite_data = NoSqlData
    /\ WorkersIdle
    /\ MainIdle
    /\ ExperimentIdle
    /\ file \in Files \cup BasicFiles
    /\ l_pc = IF file.loader = "hbase" THEN "setup" ELSE "reading"
    /\ total_records = 0
    /\ successful_records = 0
    /\ batch_count = 0
    /\ current_batch = <<>>
    /\ submitted = <<>>
    /\ ret = "none"
    /\ total_batches = -1
    /\ performance_metrics = ConnectedMetrics(file.loader)
    /\ committed = 0
    /\ b_pc = "idle"
    /\ batch_data = <<>>
    /\ attempt = 0
    /\ weather = "fine"
    /\ offset = 0
    /\ success_count = 0
    /\ counted = <<>>
    /\ tried = <<>>
    /\ result = NoResult
    /\ attempts = <<>>
    /\ table \in IF file.loader = "hbase" THEN {{}, OldTable} ELSE {{}}
    /\ stored = {}

\* setup_optimized_table deletes the table if it exists and creates it; when it
\* fails main returns without loading
SetupTable ==
    /\ l_pc = "setup"
    /\ file.loader = "hbase"
    /\ \/ table' = {} /\ l_pc' = "reading"
       \/ table' = table /\ l_pc' = "no_load"
    /\ UNCHANGED <<file, total_records, successful_records, batch_count, current_batch,
                   submitted, ret, total_batches, performance_metrics, committed,
                   b_pc, batch_data, attempt, weather, offset, success_count, counted,
                   tried, result, attempts, stored, shapeVars, workerVars, mainVars, experimentVars>>

\* a faulty variant: the handler logs the error and the load reports what it
\* has written so far
LoadExceptReport ==
    /\ l_pc' = "returned"
    /\ ret' = IF successful_records > 0 THEN "True" ELSE "False"

\* except Exception: the error is logged and the load returns False
LoadExcept ==
    /\ l_pc' = "returned"
    /\ ret' = "False"

\* the metrics, the report and the return
LoadReturn(successful) ==
    /\ total_batches' = batch_count'
    /\ performance_metrics' =
            SequentialUpdate(total_records, successful, batch_count') @@ performance_metrics
    /\ ret' = IF successful > 0 THEN "True" ELSE "False"
    /\ l_pc' = "returned"

\* if data: current_batch.append((row_key, data))
Appended(batch, f, idx) ==
    IF DOMAIN RowData(f, idx) # {} THEN Append(batch, Entry(f, idx)) ELSE batch

\* the current batch is handed to load_batch_with_retry
Submit(batch) ==
    /\ batch_count' = batch_count + 1
    /\ submitted' = Append(submitted, batch)
    /\ Call(batch)

\* a faulty variant: a batch that succeeded counts as a full batch
AddedBatchSize(successful, res) ==
    IF res.success THEN successful + batch_size ELSE successful

\* if result['success']: successful_records += result['records']
Added(successful, res) ==
    IF res.success THEN successful + res.records ELSE successful

\* One turn of the loop over the reader: the row is counted, keyed and shaped
\* and joins the current batch; a full batch is submitted.
ReadRow ==
    /\ l_pc = "reading"
    /\ file.loader = "hbase"
    /\ row_idx + 1 < file.len
    /\ IF ReaderRaises(file, row_idx + 1)
       THEN /\ LoadExcept
            /\ UNCHANGED <<row_idx, total_records, current_batch, batch_count,
                           submitted, batchVars>>
       ELSE /\ row_idx' = row_idx + 1
            /\ total_records' = total_records + 1
            /\ IF ~RowKey(file, row_idx + 1).ok
               THEN /\ LoadExcept
                    /\ UNCHANGED <<current_batch, batch_count, submitted, batchVars>>
               ELSE /\ current_batch' = Appended(current_batch, file, row_idx + 1)
                    /\ IF Len(current_batch') >= batch_size
                       THEN /\ Submit(current_batch')
                            /\ l_pc' = "submit"
                       ELSE /\ l_pc' = "reading"
                            /\ UNCHANGED <<batch_count, submitted, batchVars>>
                    /\ UNCHANGED ret
    /\ UNCHANGED <<file, successful_records, total_batches, performance_metrics,
                   committed, op, row, row_key, prev_idx, prev_key, data, sqlite_data,
                   workerVars, mainVars, experimentVars>>

\* load_batch_with_retry has returned: the records are added, the batch is emptied
BatchReturn ==
    /\ l_pc = "submit"
    /\ b_pc = "returned"
    /\ successful_records' = Added(successful_records, result)
    /\ performance_metrics' = BatchTimed(performance_metrics, result, batch_count)
    /\ current_batch' = <<>>
    /\ l_pc' = "reading"
    /\ Returned2Caller
    /\ UNCHANGED <<file, total_records, batch_count, submitted, ret, total_batches,
                   committed, shapeVars, workerVars, mainVars, experimentVars>>

\* the reader is exhausted: the last batch is submitted if it holds a row
EndOfFile ==
    /\ l_pc = "reading"
    /\ file.loader = "hbase"
    /\ row_idx + 1 >= file.len
    /\ IF current_batch # <<>>
       THEN /\ Submit(current_batch)
            /\ l_pc' = "last"
            /\ UNCHANGED <<ret, total_batches, performance_metrics>>
       ELSE /\ batch_count' = batch_count
            /\ LoadReturn(successful_records)
            /\ UNCHANGED <<submitted, batchVars>>
    /\ UNCHANGED <<file, total_records, successful_records, current_batch, committed,
                   shapeVars, workerVars, mainVars, experimentVars>>

\* load_batch_with_retry has returned for the last batch
LastReturn ==
    /\ l_pc = "last"
    /\ b_pc = "returned"
    /\ successful_records' = Added(successful_records, result)
    /\ batch_count' = batch_count
    /\ LoadReturn(Added(successful_records, result))
    /\ Returned2Caller
    /\ UNCHANGED <<file, total_records, current_batch, submitted, committed, shapeVars,
                   workerVars, mainVars, experimentVars>>

\* prepare_data(row) of the SQLite loader returns a mapping for every row; the
\* INSERT of the row may be refused, which is logged and skipped
Inserted(successful, f, idx) ==
    IF ExecuteRaises(f, idx) THEN successful ELSE successful + 1

\* the records committed once the INSERT of the row at index idx is over: the
\* commit due after it commits every record inserted so far, unless it raises
Committed(done, successful, f, idx) ==
    IF /\ ~ExecuteRaises(f, idx)
       /\ CommitDue(Inserted(successful, f, idx))
       /\ ~PeriodicCommitRaises(f)
    THEN Inserted(successful, f, idx)
    ELSE done

\* One turn of the loop of load_data_basic over the reader.  The commit after
\* every 1000 inserted records is inside the try of the INSERT: when it raises
\* the error is logged and the loop continues.
ReadRowBasic ==
    /\ l_pc = "reading"
    /\ file.loader = "sqlite"
    /\ row_idx + 1 < file.len
    /\ IF ReaderRaises(file, row_idx + 1)
       THEN /\ LoadExcept
            /\ UNCHANGED <<row_idx, total_records, successful_records, sqlite_data,
                           committed>>
       ELSE /\ row_idx' = row_idx + 1
            /\ total_records' = total_records + 1
            /\ sqlite_data' = prepare_data(RowOf(file, row_idx + 1))
            /\ successful_records' = Inserted(successful_records, file, row_idx + 1)
            /\ committed' = Committed(committed, successful_records, file, row_idx + 1)
            /\ l_pc' = "reading"
            /\ UNCHANGED ret
    /\ UNCHANGED <<file, batch_count, current_batch, submitted, total_batches,
                   performance_metrics, batchVars, op, row, row_key, prev_idx, prev_key,
                   data, workerVars, mainVars, experimentVars>>

\* the reader of load_data_basic is exhausted: the last commit, the metrics
\* and the return
EndOfFileBasic ==
    /\ l_pc = "reading"
    /\ file.loader = "sqlite"
    /\ row_idx + 1 >= file.len
    /\ IF CommitRaises(file)
       THEN /\ LoadExcept
            /\ UNCHANGED <<committed, performance_metrics>>
       ELSE /\ committed' = successful_records
            /\ performance_metrics' =
                    BasicUpdate(total_records, successful_records) @@ performance_metrics
            /\ ret' = IF successful_records > 0 THEN "True" ELSE "False"
            /\ l_pc' = "returned"
    /\ UNCHANGED <<file, total_records, successful_records, batch_count, current_batch,
                   submitted, total_batches, batchVars, shapeVars, workerVars, mainVars, experimentVars>>

LoadNext ==
    \/ SetupTable
    \/ ReadRow
    \/ BatchReturn
    \/ EndOfFile
    \/ LastReturn
    \/ ReadRowBasic
    \/ EndOfFileBasic
    \/ BatchNext

LoadSpec == LoadInit /\ [][LoadNext]_vars

(* ------------------------ main of the two loaders --------------------- *)

\* loader = OptimizedHBaseLoader() or BasicSQLiteLoader(recreate=False), and the
\* try of main is entered
MainInit ==
    /\ op = "main"
    /\ row = EmptyRow
    /\ row_idx = -1
    /\ row_key = NoKey
    /\ prev_idx = -1
    /\ prev_key = NoKey
    /\ data = NoData
    /\ sqlite_data = NoSqlData
    /\ WorkersIdle
    /\ LoaderIdle
    /\ ExperimentIdle
    /\ main_loader \in {"hbase", "sqlite"}
    /\ m_pc = "connect"
    /\ steps = <<>>
    /\ connection = "None"
    /\ raised = "none"

\* a step of main is over with its outcome: True or False returned, the
\* statement done, an Exception raised, or a KeyboardInterrupt
Step(name, out) == steps' = Append(steps, [step |-> name, out |-> out])

\* a faulty variant: return leaves main at once
EarlyReturnAtOnce == "exit"

\* return inside the try: the finally clause runs before main returns
EarlyReturn == "finally"

\* A KeyboardInterrupt is no Exception: it passes the handler of main, and the
\* finally clause runs while it is on its way out.
Interrupt(name) ==
    /\ Step(name, "interrupt")
    /\ m_pc' = "finally"
    /\ raised' = "KeyboardInterrupt"

\* the statement raises an Exception, which the handler of main catches
Raise(name) ==
    /\ Step(name, "raised")
    /\ m_pc' = "except"
    /\ raised' = "Exception"

\* What a failed connect leaves in the loader beside None: the happybase
\* Connection made with autoconnect=False whose open() raised, or the sqlite3
\* connection whose test query raised.
FailedConnection(loader) == IF loader = "hbase" THEN "unopened" ELSE "open"

\* a call of a method of the loader that catches its Exceptions and returns
\* True or False: on True main goes on to next, on False to other
Gate(name, next, other) ==
    \/ Step(name, "True") /\ m_pc' = next /\ UNCHANGED raised
    \/ Step(name, "False") /\ m_pc' = other /\ UNCHANGED raised
    \/ Interrupt(name)

\* if not loader.create_single_connection(): return
Connect ==
    /\ m_pc = "connect"
    /\ \/ Step("connect", "True") /\ m_pc' = "setup" /\ connection' = "open"
          /\ UNCHANGED raised
       \/ /\ Step("connect", "False")
          /\ m_pc' = EarlyReturn
          /\ connection' \in {"None", FailedConnection(main_loader)}
          /\ UNCHANGED raised
       \/ Interrupt("connect") /\ UNCHANGED connection
    /\ UNCHANGED <<main_loader, shapeVars, workerVars, loaderVars,
                   experimentVars>>

\* if not loader.setup_optimized_table(table_name): return
Setup ==
    /\ m_pc = "setup"
    /\ Gate("setup", "load", EarlyReturn)
    /\ UNCHANGED <<main_loader, connection, shapeVars, workerVars, loaderVars,
                   experimentVars>>

\* if loader.load_data_sequential(csv_file_path, table_name): ... else: the
\* error is logged
Load ==
    /\ m_pc = "load"
    /\ Gate("load", "verify", "finally")
    /\ UNCHANGED <<main_loader, connection, shapeVars, workerVars, loaderVars,
                   experimentVars>>

\* loader.verify_data_simple(table_name): its result is not used
Verify ==
    /\ m_pc = "verify"
    /\ Gate("verify", "report", "report")
    /\ UNCHANGED <<main_loader, connection, shapeVars, workerVars, loaderVars,
                   experimentVars>>

\* report = loader.get_performance_report()
Report ==
    /\ m_pc = "report"
    /\ Step("report", "done")
    /\ m_pc' = "open"
    /\ UNCHANGED <<main_loader, connection, raised, shapeVars, workerVars, loaderVars,
                   experimentVars>>

\* with open('hbase_stable_report.json', 'w') as f
OpenReport ==
    /\ m_pc = "open"
    /\ \/ Step("open", "done") /\ m_pc' = "dump" /\ UNCHANGED raised
       \/ Raise("open")
       \/ Interrupt("open")
    /\ UNCHANGED <<main_loader, connection, shapeVars, workerVars, loaderVars,
                   experimentVars>>

\* json.dump(report, f, indent=2), and the success is logged
DumpReport ==
    /\ m_pc = "dump"
    /\ \/ Step("dump", "done") /\ m_pc' = "finally" /\ UNCHANGED raised
       \/ Raise("dump")
       \/ Interrupt("dump")
    /\ UNCHANGED <<main_loader, connection, shapeVars, workerVars, loaderVars,
                   experimentVars>>

\* except Exception as e: the error is logged
Except ==
    /\ m_pc = "except"
    /\ Step("except", "done")
    /\ m_pc' = "finally"
    /\ raised' = "none"
    /\ UNCHANGED <<main_loader, connection, shapeVars, workerVars, loaderVars,
                   experimentVars>>

\* finally: loader.cleanup().  The connection is closed if there is one; an
\* error of close() is dropped by the HBase loader and leaves main from the
\* SQLite loader.
Cleanup ==
    /\ m_pc = "finally"
    /\ IF connection = "None"
       THEN Step("cleanup", "nothing") /\ UNCHANGED <<connection, raised>>
       ELSE \/ Step("cleanup", "closed") /\ connection' = "closed" /\ UNCHANGED raised
            \/ /\ Step("cleanup", "close raised")
               /\ raised' = IF main_loader = "hbase" THEN raised ELSE "Exception"
               /\ UNCHANGED connection
    /\ m_pc' = "exit"
    /\ UNCHANGED <<main_loader, shapeVars, workerVars, loaderVars,
                   experimentVars>>

MainNext ==
    \/ Connect
    \/ Setup
    \/ Load
    \/ Verify
    \/ Report
    \/ OpenReport
    \/ DumpReport
    \/ Except
    \/ Cleanup

MainSpec == MainInit /\ [][MainNext]_vars

(* ---------------- the loading of the performance experiment ----------- *)

\* batch_size of load_data_to_hbase
ExperimentBatch == 1000

\* the values of the Post ID column
PostIds == {"a", "a_1", "b"}

\* the sequences over S of length n
SeqsOf(S, n) == [1..n -> S]

\* The CSV files: with a Post ID column, whose values may repeat, or without
\* one.
CsvFiles ==
    UNION {{[post_id |-> TRUE, ids |-> q] : q \in SeqsOf(PostIds, n)} : n \in 0..MaxRows}
    \cup {[post_id |-> FALSE, ids |-> [i \in 1..n |-> ""]] : n \in 0..MaxRows}

\* str(n) for the row numbers of the files
NumberText(n) == DigitChars[n + 1]

\* row_key = row.get('Post ID', f'post_{row_count}')
ExperimentKey(f, n) ==
    IF f.post_id THEN f.ids[n] ELSE "post_" \o NumberText(n)

\* df_clean['post_id'].duplicated().sum(): the rows whose post_id an earlier row has
Duplicated(ids) ==
    Cardinality({i \in DOMAIN ids : \E j \in 1..(i - 1) : ids[j] = ids[i]})

\* The post_id column load_data_to_sqlite inserts: when a value repeats every
\* value gets the suffix '_' + row_number, the rows being numbered from 0.
CleanPostIds(ids) ==
    IF Duplicated(ids) > 0
    THEN [i \in DOMAIN ids |-> ids[i] \o "_" \o NumberText(i - 1)]
    ELSE ids

\* batch.send(): the mutations of the batch reach the table, a row put again
\* replacing the row stored under its key
Sent(tbl, mutations) == mutations @@ tbl

\* setup_hbase_table and setup_sqlite_table have created the tables
ExperimentInit ==
    /\ op = "experiment"
    /\ row = EmptyRow
    /\ row_idx = -1
    /\ row_key = NoKey
    /\ prev_idx = -1
    /\ prev_key = NoKey
    /\ data = NoData
    /\ sqlite_data = NoSqlData
    /\ WorkersIdle
    /\ LoaderIdle
    /\ MainIdle
    /\ csv \in CsvFiles
    /\ e_pc = "open"
    /\ row_count = 0
    /\ e_batch = NoRows
    /\ hbase_table = NoRows
    /\ sqlite_table = <<>>
    /\ data_stats = 0

\* first_row = next(reader): StopIteration for a file without data rows, which
\* the handler logs, and load_data_to_hbase returns False
FirstRow ==
    /\ e_pc = "open"
    /\ e_pc' = IF csv.ids = <<>> THEN "failed" ELSE "rows"
    /\ UNCHANGED <<csv, row_count, e_batch, hbase_table, sqlite_table, data_stats,
                   shapeVars, workerVars, loaderVars, mainVars>>

\* one turn of the loop of load_data_to_hbase: the row is put under its Post ID,
\* and the batch is sent when row_count is a multiple of batch_size
HBaseRow ==
    /\ e_pc = "rows"
    /\ row_count < Len(csv.ids)
    /\ row_count' = row_count + 1
    /\ IF (row_count + 1) % ExperimentBatch = 0
       THEN /\ hbase_table' =
                    Sent(hbase_table, (ExperimentKey(csv, row_count + 1) :> row_count + 1) @@ e_batch)
            /\ e_batch' = NoRows
       ELSE /\ e_batch' = (ExperimentKey(csv, row_count + 1) :> row_count + 1) @@ e_batch
            /\ UNCHANGED hbase_table
    /\ UNCHANGED <<csv, e_pc, sqlite_table, data_stats,
                   shapeVars, workerVars, loaderVars, mainVars>>

\* the rows left are sent, and self.data_stats['total_records'] = row_count
HBaseLoaded ==
    /\ e_pc = "rows"
    /\ row_count >= Len(csv.ids)
    /\ IF row_count % ExperimentBatch # 0
       THEN hbase_table' = Sent(hbase_table, e_batch) /\ e_batch' = NoRows
       ELSE UNCHANGED <<hbase_table, e_batch>>
    /\ data_stats' = row_count
    /\ e_pc' = "sqlite"
    /\ UNCHANGED <<csv, row_count, sqlite_table,
                   shapeVars, workerVars, loaderVars, mainVars>>

\* load_data_to_sqlite: the frame is read, post_id is made unique if the file
\* has the column and a value repeats, and to_sql appends every row
SqliteLoaded ==
    /\ e_pc = "sqlite"
    /\ sqlite_table' = IF csv.post_id THEN CleanPostIds(csv.ids) ELSE csv.ids
    /\ e_pc' = "loaded"
    /\ UNCHANGED <<csv, row_count, e_batch, hbase_table, data_stats,
                   shapeVars, workerVars, loaderVars, mainVars>>

ExperimentNext == FirstRow \/ HBaseRow \/ HBaseLoaded \/ SqliteLoaded

ExperimentSpec == ExperimentInit /\ [][ExperimentNext]_vars

(* ------------------------------- claims ------------------------------- *)

\* the byte of "0"
Zero == <<48>>

\* the characters of a UTF-8 byte string: its bytes that continue no character
CharCount(b) == Cardinality({i \in 1..Len(b) : b[i] < 128 \/ b[i] > 191})

HasPoint(b) == \E i \in 1..Len(b) : b[i] = 46

\* a cell that is blank, a sentinel token, or a str that float() rejects
NotANumber(cell) ==
    cell.k = "str" /\ (Strip(cell.s) \in NumSentinels \/ ~ParseFloat(cell.s).ok)

\* the four tokens, in lower case
Tokens == {<<>>, <<"n", "a", "n">>, <<"n", "o", "n", "e">>, <<"n", "u", "l", "l">>}

\* C1: the keys of two rows of one run, keyed with different indexes, differ,
\* whatever the Platform and Post ID of the two rows.
C1_SequentialKeysDistinct ==
    (op = "key" /\ row_key.ok /\ prev_idx >= 0) =>
        (prev_idx # row_idx /\ row_key.val # prev_key.val)

\* C1 witness: the rows 0 and 100000000 of a run are keyed, with the same
\* Platform and Post ID, which hold "_" and digits.
C1_Witness ==
    /\ op = "key" /\ row_key.ok
    /\ prev_idx = 0 /\ row_idx = 100000000
    /\ row["Platform"] = Str(<<"a", "_", "b">>)
    /\ row["Post ID"] = Str(<<"b", "_", "1">>)
    /\ SubSeq(prev_key.val, 1, 8) = SubSeq(row_key.val, 1, 8)

\* C2: generate_simple_row_key returns a non-empty key and prepare_simple_data
\* returns a column mapping for every row; neither raises.
C2_ShaperNeverRaises ==
    /\ op = "key" => (row_key.ok /\ row_key.val # <<>>)
    /\ op = "hbase" => DOMAIN data \subseteq
            {basic_mapping[f] : f \in BasicFields} \cup {metrics_mapping[f] : f \in MetricFields}

C4_SentinelsAnyCase ==
    op = "hbase" =>
        \A f \in MetricFields :
            LET c == metrics_mapping[f]
            IN  /\ (row[f].k = "str" /\ Lower(Strip(row[f].s)) \in Tokens) =>
                        (c \in DOMAIN data /\ data[c] = Zero)
                /\ c \in DOMAIN data =>
                        \A i \in 1..Len(data[c]) : data[c][i] \in (48..57) \cup {45, 46}

\* C5: a text cell that is blank or "nan", "none" or "null" in any letter case
\* is omitted, and no text column holds an empty value or one of these tokens.
C5_TextSentinelsOmitted ==
    op = "hbase" =>
        \A f \in BasicFields :
            LET c == basic_mapping[f]
            IN  /\ Lower(Strip(PyStr(RowGet(row, f, Str(<<>>))))) \in Tokens => c \notin DOMAIN data
                /\ c \in DOMAIN data =>
                        [i \in 1..Len(data[c]) |->
                            IF data[c][i] \in 65..90 THEN data[c][i] + 32 ELSE data[c][i]]
                        \notin {Encode(tok) : tok \in Tokens}

\* C6: every text column holds at most 500 (post content), 200 (audience
\* interests), 100 (audience location) or 50 (other fields) characters: the
\* first ones of the trimmed cell.
C6_TextWithinCut ==
    op = "hbase" =>
        \A f \in BasicFields :
            LET c == basic_mapping[f]
                cut == IF f = "Post Content" THEN 500
                       ELSE IF f = "Audience Interests" THEN 200
                       ELSE IF f = "Audience Location" THEN 100
                       ELSE 50
                trimmed == Strip(PyStr(RowGet(row, f, Str(<<>>))))
            IN  c \in DOMAIN data =>
                    /\ CharCount(data[c]) <= cut
                    /\ data[c] = Encode(SubSeq(trimmed, 1, Min(cut, Len(trimmed))))

\* C6 witness: a padded post content of 501 characters is emitted as 500.
C6_Witness ==
    /\ op = "hbase"
    /\ row["Post Content"] = Str(<<" ">> \o Rep("x", 501) \o <<" ">>)
    /\ CharCount(data["cf:post_content"]) = 500

\* C7: a metric that is a whole number from -2147483648 to 2147483647 is
\* emitted without a decimal point; one with a fraction or outside that range
\* is emitted with one.
C7_Int32Inclusive ==
    op = "hbase" =>
        \A f \in MetricFields :
            LET x == ParseFloat(row[f].s)
                whole == AllZeros(x.fp)
                above == <<"2", "1", "4", "7", "4", "8", "3", "6", "4", "8">>
                inside == NatLess(x.ip, above) \/ (x.neg /\ StripZeros(x.ip) = above)
                c == metrics_mapping[f]
            IN  (row[f].k = "str" /\ ~NotANumber(row[f]) /\ x.kind = "fin") =>
                    (c \in DOMAIN data /\ (HasPoint(data[c]) <=> ~(whole /\ inside)))

RECURSIVE DecimalValue(_)
\* the number a digit string denotes
DecimalValue(d) ==
    IF d = <<>> THEN 0 ELSE 10 * DecimalValue(SubSeq(d, 1, Len(d) - 1)) + DigitVal(d[Len(d)])

\* C8: a returned key is the first 10 characters of Platform ("unknown" when the
\* key is absent), "_", the first 8 characters of Post ID, "_", and the row index
\* in decimal, zero-padded to 8 digits; the example row gives
\* "Instagram_abc12345_00000003".
C8_KeyFormat ==
    (op = "key" /\ row_key.ok) =>
        LET k == row_key.val
            p == IF row["Platform"].k = "absent" THEN unknown ELSE row["Platform"].s
            q == IF row["Post ID"].k = "none" THEN <<"N", "o", "n", "e">> ELSE row["Post ID"].s
            n == Min(Len(p), 10)
            m == Min(Len(q), 8)
            digits == SubSeq(k, n + m + 3, Len(k))
        IN  /\ Len(k) >= n + m + 2 + 8
            /\ SubSeq(k, 1, n) = SubSeq(p, 1, n)
            /\ k[n + 1] = "_"
            /\ SubSeq(k, n + 2, n + m + 1) = SubSeq(q, 1, m)
            /\ k[n + m + 2] = "_"
            /\ AllDigits(digits)
            /\ DecimalValue(digits) = row_idx
            /\ row_idx < 100000000 => Len(digits) = 8
            /\ (/\ row["Platform"] = FullRow["Platform"]
                /\ row["Post ID"] = FullRow["Post ID"]
                /\ row_idx = 3) =>
                    k = <<"I", "n", "s", "t", "a", "g", "r", "a", "m", "_",
                          "a", "b", "c", "1", "2", "3", "4", "5", "_",
                          "0", "0", "0", "0", "0", "0", "0", "3">>

\* C8 witness: the example row has been keyed with index 3.
C8_Witness ==
    /\ op = "key" /\ row_key.ok
    /\ row["Platform"] = FullRow["Platform"]
    /\ row["Post ID"] = FullRow["Post ID"]
    /\ row_idx = 3

\* C9 as stated: audience age is numeric like likes; an empty or non-numeric
\* age is stored as zero, in the HBase columns and in the SQLite values.
C9_AgeZeroFilled ==
    /\ op = "hbase" =>
            (NotANumber(row["Audience Age"]) =>
                \E c \in DOMAIN data \cap {"cf:audience_age", "metrics:audience_age"} :
                    data[c] = Zero)
    /\ op = "sqlite" =>
            (NotANumber(row["Audience Age"]) =>
                sqlite_data["Audience Age"] \in {PyInt(<<"0">>), PyFloat(<<"0", ".", "0">>)})

\* C9 amended: prepare_simple_data handles audience age as text: the trimmed
\* cell, cut to 50 characters, is the cf:audience_age column, which is omitted
\* when it is empty, "nan" or "none"; prepare_data converts it to a number, and
\* an empty or non-numeric age is NULL there, never zero and never text.
C9_AgeTextOrNull ==
    /\ op = "hbase" =>
            LET t == Strip(PyStr(RowGet(row, "Audience Age", Str(<<>>))))
                c == "cf:audience_age"
            IN  /\ "metrics:audience_age" \notin DOMAIN data
                /\ IF Lower(t) \in {<<>>, <<"n", "a", "n">>, <<"n", "o", "n", "e">>}
                   THEN c \notin DOMAIN data
                   ELSE c \in DOMAIN data /\ data[c] = Encode(SubSeq(t, 1, Min(50, Len(t))))
    /\ op = "sqlite" =>
            LET cell == row["Audience Age"]
                age == sqlite_data["Audience Age"]
            IN  /\ age.k \in {"null", "int", "float"}
                /\ (cell.k # "str" \/ NotANumber(cell)) => age = PyNone
                /\ (cell.k = "str" /\ ParseFloat(cell.s).kind = "fin") => age.k \in {"int", "float"}

\* C9 witness: the age "N/A" has been shaped for HBase and is stored as text.
C9_Witness ==
    /\ op = "hbase"
    /\ row["Audience Age"] = Str(<<"N", "/", "A">>)
    /\ "cf:audience_age" \in DOMAIN data
    /\ data["cf:audience_age"] = <<78, 47, 65>>

C12_UnknownFieldsIgnored ==
    op = "hbase" =>
        /\ data = prepare_simple_data([f \in AllFields |->
                        IF f \in KnownFields THEN row[f] ELSE Absent])
        /\ DOMAIN data \subseteq
                {"cf:platform", "cf:post_id", "cf:post_type", "cf:post_content",
                 "cf:post_timestamp", "cf:audience_age", "cf:audience_gender",
                 "cf:audience_location", "cf:audience_interests", "cf:campaign_id",
                 "cf:sentiment", "cf:influencer_id",
                 "metrics:likes", "metrics:comments", "metrics:shares",
                 "metrics:impressions", "metrics:reach", "metrics:engagement_rate"}

\* C12 witness: the example row with a Views cell has been shaped.
C12_Witness ==
    /\ op = "hbase"
    /\ row["Views"] = Str(<<"a">>)
    /\ row["Platform"] = FullRow["Platform"]
    /\ "cf:platform" \in DOMAIN data

\* the bytes of a number without its sign
Unsigned(b) == IF b # <<>> /\ b[1] = 45 THEN Tail(b) ELSE b

\* the position of the point in the bytes of a number, past the end for none
PointAt(u) ==
    IF \E i \in 1..Len(u) : u[i] = 46 THEN CHOOSE i \in 1..Len(u) : u[i] = 46
    ELSE Len(u) + 1

\* the digit characters of digit bytes
ByteDigits(b) == [i \in 1..Len(b) |-> DigitChars[b[i] - 47]]

\* the number of hundredths of the unsigned number u, which has two decimals at most
Hundredths(u) ==
    ByteDigits(SubSeq(u, 1, PointAt(u) - 1))
    \o SubSeq(ByteDigits(SubSeq(u, PointAt(u) + 1, Len(u))) \o <<"0", "0">>, 1, 2)

\* C14: the engagement rate emitted for a finite number has two digits after the
\* point at most and is less than 0.01 away from the number; "3.14159" is
\* emitted as "3.14".
C14_RoundedToTwoDecimals ==
    op = "hbase" =>
        LET cell == row["Engagement Rate"]
            x == ParseFloat(cell.s)
            out == data["metrics:engagement_rate"]
            u == Unsigned(out)
            floor == x.ip \o SubSeq(x.fp \o <<"0", "0">>, 1, 2)
        IN  /\ (cell.k = "str" /\ ~NotANumber(cell) /\ x.kind = "fin") =>
                /\ Len(u) - PointAt(u) <= 2
                /\ \/ StripZeros(Hundredths(u)) = StripZeros(floor)
                   \/ /\ ~AllZeros(SubSeq(x.fp, 3, Len(x.fp)))
                      /\ StripZeros(Hundredths(u)) = StripZeros(Increment(floor))
                /\ out[1] = 45 => x.neg
            /\ cell = Str(<<"3", ".", "1", "4", "1", "5", "9">>) => out = <<51, 46, 49, 52>>

\* C14 witness: the engagement rate "3.14159" has been shaped.
C14_Witness ==
    /\ op = "hbase"
    /\ row["Engagement Rate"] = Str(<<"3", ".", "1", "4", "1", "5", "9">>)
    /\ data["metrics:engagement_rate"] = <<51, 46, 49, 52>>

\* C11: a finished call returns the key and the columns of its own row and
\* index, whatever the other workers shaped meanwhile; two finished calls with
\* the same row and index returned the same key and the same columns.
C11_ShapingHasNoHiddenState ==
    \A w \in Workers :
        calls[w].pc = "done" =>
            /\ calls[w].key = generate_simple_row_key(calls[w].row, calls[w].counter)
            /\ calls[w].out = prepare_simple_data(calls[w].row)
            /\ \A v \in Workers :
                    (/\ calls[v].pc = "done"
                     /\ calls[v].row = calls[w].row
                     /\ calls[v].counter = calls[w].counter) =>
                        (calls[v].key = calls[w].key /\ calls[v].out = calls[w].out)

\* C11 witness: two workers have shaped the same row with the same index, and
\* the frames hold what each call left.
C11_Witness ==
    /\ calls[1].pc = "done"
    /\ calls[2].pc = "done"
    /\ calls[1].row = FullRow
    /\ calls[2].row = FullRow
    /\ calls[1].counter = 3
    /\ calls[2].counter = 3
    /\ calls[1].out # NoData
    /\ frames[1] = NoData

(* ----------------- claims about load_batch_with_retry ------------------ *)

\* no attempt counted a record
NothingCounted == \A k \in DOMAIN attempts : attempts[k] <= 0

\* the steps a call can still take: the attempts left, each with its
\* micro-batches, its beginning and its end
StepsLeft ==
    IF b_pc = "returned" THEN 0
    ELSE (max_retries - attempt) * (Len(batch_data) + 3)
         + (IF b_pc = "micro" THEN Len(batch_data) - Min(offset, Len(batch_data)) + 1
            ELSE Len(batch_data) + 2)

\* The call never leaves the retry loop by an exception: it is at the head of
\* an attempt (where BeginAttempt or GiveUp can step), among the micro-batches
\* (where MicroBatch or EndAttempt can step) or returned.  It never takes more
\* than max_retries attempts, and a call whose attempts counted nothing
\* returns the failure result after max_retries attempts.
C16_WithinRetries ==
    /\ b_pc # "raised"
    /\ b_pc \in {"attempt", "micro", "returned"}
    /\ StepsLeft >= 0
    /\ attempt <= max_retries
    /\ Len(attempts) <= max_retries
    /\ (b_pc = "returned" /\ NothingCounted) =>
            /\ result = [success |-> FALSE, records |-> 0, attempt |-> 3]
            /\ Len(attempts) = max_retries

\* C16: load_batch_with_retry always terminates after at most max_retries (3)
\* attempts: every step of the call lowers the number of steps it can still
\* take, which is zero only when it has returned; it never raises to its
\* caller, and if no attempt writes a record (every write fails or the attempt
\* raises) it returns success=False with records=0 and attempt=max_retries.
C16_TerminatesWithinRetries == []C16_WithinRetries /\ [][StepsLeft' < StepsLeft]_vars

\* a call returned the failure result after an attempt that raised and an
\* attempt whose writes all failed
C16_Witness ==
    /\ b_pc = "returned"
    /\ ~result.success
    /\ \E k \in DOMAIN attempts : attempts[k] = -1
    /\ \E k \in DOMAIN attempts : attempts[k] = 0

\* C17: load_batch_with_retry returns success=True exactly when some attempt
\* counted a written record, and that attempt is the last one made: records is
\* its count, 1 <= records <= len(batch_data), and a record whose put failed in
\* it was put once and is not written again.
C17_SuccessIsFirstWritingAttempt ==
    b_pc = "returned" =>
        /\ result.success <=> ~NothingCounted
        /\ result.success =>
            /\ result.attempt = Len(attempts)
            /\ \A k \in 1..(Len(attempts) - 1) : attempts[k] <= 0
            /\ result.records = attempts[Len(attempts)]
            /\ result.records = Cardinality({p \in DOMAIN counted : counted[p] > 0})
            /\ 1 <= result.records
            /\ result.records <= Len(batch_data)
            /\ \A p \in DOMAIN counted : counted[p] = 0 => tried[p] = 1

\* a second attempt wrote a part of a batch of several micro-batches, and the
\* call returned success
C17_Witness ==
    /\ b_pc = "returned"
    /\ result.success
    /\ result.attempt = 2
    /\ result.records = 1
    /\ Len(batch_data) > MicroBatchMax

\* C18: within an attempt the batch is written in micro-batches of at most 500
\* records; every record of the micro-batches gone through was either counted
\* with its grouped write or put individually exactly once, it is counted when
\* that put went through, so a failing record stops neither the records after
\* it nor the later micro-batches, and no record is counted twice.
C18_MicroBatchesAndFallback ==
    (b_pc = "micro" \/ (b_pc = "returned" /\ result.success)) =>
        /\ MicroEnd(offset, Len(batch_data)) - offset <= 500
        /\ \A p \in 1..Min(offset, Len(batch_data)) :
            /\ counted[p] <= 1
            /\ tried[p] <= 1
            /\ tried[p] = 0 => counted[p] = 1
            /\ tried[p] = 1 => (counted[p] = 1 <=> ~PutFails(weather, p))
        /\ \A p \in (Min(offset, Len(batch_data)) + 1)..Len(batch_data) :
            counted[p] = 0 /\ tried[p] = 0
        /\ success_count = Cardinality({p \in DOMAIN counted : counted[p] = 1})
        /\ (b_pc = "returned") => offset >= Len(batch_data)

\* the first record failed in the fallback of the first micro-batch, the second
\* was put and counted, and the second micro-batch was written grouped
C18_Witness ==
    /\ b_pc = "micro"
    /\ offset = 2 * MicroBatchMax
    /\ tried[1] = 1 /\ counted[1] = 0
    /\ tried[2] = 1 /\ counted[2] = 1
    /\ tried[MicroBatchMax + 1] = 0 /\ counted[MicroBatchMax + 1] = 1

(* ------------------- claims about load_data_sequential ----------------- *)

\* C13 as stated: a load that returns has processed every row of the file
C13_CompletesOrRaises ==
    (l_pc = "returned" /\ ret \in {"True", "False"}) => row_idx + 1 = file.len

\* C13, amended: a load either processes every row of the file, or stops at
\* the first exception that escapes the row loop (a reader error, a key error
\* of the HBase loader), logs it and returns False; the same holds when the
\* last commit of the SQLite loader raises.  It never raises to its caller.
C13_StopsEarlyReturningFalse ==
    l_pc = "returned" =>
        /\ ret \in {"True", "False"}
        /\ row_idx + 1 < file.len => ret = "False" /\ file.fault # "none"
        /\ file.fault \in {"none", "insert", "commit"} => row_idx + 1 = file.len
        /\ (file.fault \in {"reader", "short"} /\ file.loader = "hbase") =>
                ret = "False" /\ total_batches = -1
        /\ file.fault \in {"reader", "commit"} => ret = "False"

\* a load stopped at an undecodable line after a batch had been written, and
\* returned False
C13_Witness ==
    /\ l_pc = "returned"
    /\ file.fault = "reader"
    /\ row_idx + 1 < file.len
    /\ ret = "False"
    /\ successful_records > 0

\* C19: when load_data_sequential returns, the batches submitted are the rows
\* read, in file order, each row in exactly one batch; every batch but the
\* last has batch_size (2000) records, the last has between 1 and batch_size,
\* and total_batches = ceil(total_records / batch_size).
C19_RowsPartitionedIntoBatches ==
    (l_pc = "returned" /\ file.loader = "hbase") =>
        /\ \A k \in DOMAIN submitted : \A p \in DOMAIN submitted[k] :
                submitted[k][p].row = (k - 1) * 2000 + p - 1
        /\ \A k \in 1..(Len(submitted) - 1) : Len(submitted[k]) = 2000
        /\ \A k \in DOMAIN submitted : Len(submitted[k]) \in 1..2000
        /\ total_records =
                IF submitted = <<>> THEN 0
                ELSE (Len(submitted) - 1) * 2000 + Len(submitted[Len(submitted)])
        /\ total_batches = (total_records + 1999) \div 2000
        /\ total_batches = Len(submitted)

\* C20: no two records of a load are written under the same row key: the table
\* is empty when the row loop begins and holds one row per record written, and
\* its row count is never below successful_records.
C20_OneRowPerRecordWritten ==
    (file.loader = "hbase" /\ l_pc \in {"reading", "submit", "last", "returned"}) =>
        /\ Cardinality(table) = Cardinality(stored)
        /\ Cardinality(table) >= successful_records

\* two batches were written over a table left by an earlier load, and HBase
\* holds a row that no attempt counted
C20_Witness ==
    /\ l_pc = "returned"
    /\ file.loader = "hbase"
    /\ successful_records = batch_size
    /\ Cardinality(table) = batch_size + 1

\* C22: at every point of a load, of load_data_sequential and of
\* load_data_basic, successful_records <= total_records, the number of rows read
\* so far; hence the success_rate the load records is between 0 and 100.
C22_SuccessfulWithinTotal ==
    (op = "load") =>
        /\ 0 <= successful_records
        /\ successful_records <= total_records
        /\ total_records <= file.len
        /\ "success_rate" \in DOMAIN performance_metrics =>
                /\ 0 <= performance_metrics.success_rate.num
                /\ performance_metrics.success_rate.num
                        <= 100 * performance_metrics.success_rate.den

\* a load of the HBase loader has returned with some of the rows it read
\* written and a success_rate strictly between 0 and 100
C22_Witness ==
    /\ op = "load"
    /\ file.loader = "hbase"
    /\ l_pc = "returned"
    /\ 0 < successful_records
    /\ successful_records < total_records
    /\ "success_rate" \in DOMAIN performance_metrics
    /\ 0 < performance_metrics.success_rate.num
    /\ performance_metrics.success_rate.num < 100 * performance_metrics.success_rate.den

\* the load has returned and its loop has read every data line of the file
FileRead == op = "load" /\ l_pc = "returned" /\ total_records = file.len

\* the store holds a record of this load: a row of the HBase table, which
\* setup_optimized_table emptied before the load, or a committed SQLite record
SomeStored == IF file.loader = "hbase" THEN table # {} ELSE committed > 0

\* C23: a load (load_data_sequential, load_data_basic) that reads the whole file
\* returns True if and only if at least one record was stored; a file with no
\* data rows is a failed load, and a load in which all batches but one failed
\* is a successful one.
C23_TrueIffSomeStored ==
    FileRead => (ret = "True" <=> SomeStored)

\* the load has returned from its handler: the reader raised before the end of
\* the file, the key of the last row read could not be made, or the last commit
\* of the SQLite loader raised
LoadInterrupted ==
    /\ op = "load"
    /\ l_pc = "returned"
    /\ \/ total_records < file.len
       \/ file.loader = "hbase" /\ row_idx >= 0 /\ ~RowKey(file, row_idx).ok
       \/ file.loader = "sqlite" /\ CommitRaises(file)

\* C24: when an exception interrupts a load, the load returns False and leaves
\* performance_metrics exactly as it was before the call; the records already
\* written to the store are not removed.
C24_InterruptedLoadLeavesMetrics ==
    LoadInterrupted =>
        /\ ret = "False"
        /\ performance_metrics = ConnectedMetrics(file.loader)
        /\ file.loader = "hbase" => Cardinality(table) >= successful_records
        /\ file.loader = "sqlite" => committed = CommitEvery * (successful_records \div CommitEvery)

\* C26: the SQLite loader issues a commit after every 1000th successful insert
\* and once after the last row, so at every point of load_data_basic fewer than
\* 1000 inserted records are uncommitted, and when the whole file has been read
\* every inserted record is committed.
C26_FewerThan1000Uncommitted ==
    (op = "load" /\ file.loader = "sqlite") =>
        /\ successful_records - committed < CommitEvery
        /\ FileRead => committed = successful_records

\* the step with this name and outcome
Did(name, out) == [step |-> name, out |-> out]

\* C25: in main of each loader the steps are ordered and gated: the table is
\* set up only after the connection succeeded, the load runs only after the
\* setup succeeded, the verification and the report come only after the load
\* returned True; and cleanup runs on every path out of main, early returns
\* and exceptions included.
C25_MainOrderedAndCleanedUp ==
    (op = "main") =>
        /\ \A i \in DOMAIN steps :
            /\ steps[i].step = "connect" => i = 1
            /\ steps[i].step = "setup" => i = 2 /\ steps[1] = Did("connect", "True")
            /\ steps[i].step = "load" => i = 3 /\ steps[2] = Did("setup", "True")
            /\ steps[i].step = "verify" => i = 4 /\ steps[3] = Did("load", "True")
            /\ steps[i].step \in {"report", "open", "dump"} =>
                    /\ i > 4
                    /\ steps[3] = Did("load", "True")
                    /\ steps[4].step = "verify"
            /\ steps[i].step = "cleanup" => i = Len(steps) /\ m_pc = "exit"
        /\ m_pc = "exit" =>
            /\ steps # <<>>
            /\ steps[Len(steps)].step = "cleanup"
            /\ steps[Len(steps)].out = "nothing" <=> connection = "None"
            /\ steps[Len(steps)].out = "closed" <=> connection = "closed"

\* main has ended after json.dump raised: the handler ran, then cleanup closed
\* the connection
C25_Witness ==
    /\ op = "main"
    /\ m_pc = "exit"
    /\ Len(steps) = 9
    /\ steps[7] = Did("dump", "raised")
    /\ steps[8] = Did("except", "done")
    /\ steps[9] = Did("cleanup", "closed")
    /\ connection = "closed"

\* C21: duplicates in Post ID are handled in the performance experiment: no CSV
\* row is lost because it shares its Post ID with another row, so after the
\* loading the HBase table and the SQLite table hold one record per CSV row,
\* and total_records equals the number of records in each store.
C21_OneRecordPerCsvRow ==
    (op = "experiment" /\ e_pc = "loaded") =>
        /\ Cardinality(DOMAIN hbase_table) = Len(csv.ids)
        /\ Len(sqlite_table) = Len(csv.ids)
        /\ data_stats = Cardinality(DOMAIN hbase_table)
        /\ data_stats = Len(sqlite_table)

====
